---- MODULE Spec2Model ----
(***************************************************************************)
(* Suxhuk Ordering API (src/main.py): customers, inventory and orders over *)
(* a document store with three collections.                                *)
(*                                                                         *)
(* Numbers.  available_kg is a float; it is kept here in units of 1/Den kg *)
(* so that fractional stock is representable.  price_per_kg is kept in     *)
(* mills (1/1000 NZD) and total_price_nzd in cents; the total is rounded   *)
(* as Python rounds the float product.  Timestamps are ticks of a clock    *)
(* `now`.  A request served alone reads the clock and the clock then moves *)
(* on; among requests served at once each reading of the clock is a step   *)
(* of its own and the clock moves on between steps.  A document is a       *)
(* record; a field a document does not have is not in its DOMAIN.  resp is *)
(* the response to the latest request served alone and log the endpoints   *)
(* so served, in order; procs holds the requests served at once.           *)
(***************************************************************************)
EXTENDS Integers, Sequences, FiniteSets, TLC

VARIABLES customer, inventory, order, now, resp, log, procs

vars == <<customer, inventory, order, now, resp, log, procs>>

\* ---------------------------------------------------------------- bounds
\* The clock stops at MaxTime; every request served alone takes one tick of it.
MaxTime == 3

\* available_kg is kept in units of 1/Den kg.
Den == 2

\* Requests in flight at once in the interleaved specifications.
NumProcs == 2

\* ------------------------------------------------------------ identifiers
\* str(ObjectId): a well-formed id string carries the ObjectId it denotes.
StrId(n) == <<"oid", n>>

\* A string that bson.ObjectId() rejects.
BadId == <<"bad", 0>>

\* ObjectId(s) raises for a malformed string.
ObjectIdOk(s) == s[1] = "oid"

ObjectId(s) == s[2]

\* datetime.isoformat()
IsoFormat(t) == <<"iso", t>>

Products == {"suxhuk", "mish_te_teren"}

Statuses == {"received", "in_production", "ready_for_collection"}

\* ------------------------------------------------------------ the store
\* insert: the store assigns the next identifier of the collection.
InsertDoc(coll, doc) ==
    Append(coll, [f \in (DOMAIN doc) \cup {"_id"} |->
                    IF f = "_id" THEN Len(coll) + 1 ELSE doc[f]])

\* database.create_document(collection, data): inserts, returns str(id).
create_document(coll, doc) == InsertDoc(coll, doc)

NewId(coll) == StrId(Len(coll) + 1)

\* database.get_documents(collection): every document, in natural order.
get_documents(coll) == coll

\* find_one({field: value}): index of the first match in natural order, 0 for None.
FindIndex(coll, field, value) ==
    LET hits == {i \in 1..Len(coll) :
                    field \in DOMAIN coll[i] /\ coll[i][field] = value}
    IN  IF hits = {} THEN 0
        ELSE CHOOSE i \in hits : \A j \in hits : i <= j

\* {"$set": payload} on one document: the payload's fields replace or are added.
SetFields(doc, payload) ==
    [f \in (DOMAIN doc) \cup (DOMAIN payload) |->
        IF f \in DOMAIN payload THEN payload[f] ELSE doc[f]]

\* update_one({"_id": id}, {"$set": payload}); no match leaves the collection.
UpdateOne(coll, id, payload) ==
    LET i == FindIndex(coll, "_id", id)
    IN  IF i = 0 THEN coll
        ELSE [coll EXCEPT ![i] = SetFields(coll[i], payload)]

MatchedCount(coll, id) == IF FindIndex(coll, "_id", id) = 0 THEN 0 ELSE 1

\* dict.get(key, default)
Get(doc, key, default) == IF key \in DOMAIN doc THEN doc[key] ELSE default

\* ------------------------------------------------------------ arithmetic
\* Python's // on a positive divisor: the floor of the quotient.
FloorDiv(a, b) ==
    IF a >= 0 THEN a \div b
    ELSE -(((-a) + b - 1) \div b)

\* ---- floats.  A price is a decimal number of mills (n / PriceScale); the
\* program holds it as the double nearest to it, multiplies doubles and rounds
\* the double it gets.  What follows computes, with small integers only, on
\* which side of the decimal product n * q / PriceScale that double lies.
PriceScale == 1000

\* Bits after the leading one in the significand of a double.
MantissaBits == 52

RECURSIVE Pow2(_)
Pow2(k) == IF k = 0 THEN 1 ELSE 2 * Pow2(k - 1)

\* 2^e modulo m
RECURSIVE PowMod2(_, _)
PowMod2(e, m) == IF e = 0 THEN 1 % m ELSE (2 * PowMod2(e - 1, m)) % m

\* Largest k with d * 2^k <= n, for n >= d.
RECURSIVE Log2Up(_, _, _)
Log2Up(n, d, k) == IF d * Pow2(k + 1) <= n THEN Log2Up(n, d, k + 1) ELSE k

\* Smallest j with n * 2^j >= d, for 0 < n < d.
RECURSIVE Log2Down(_, _, _)
Log2Down(n, d, j) == IF n * Pow2(j) < d THEN Log2Down(n, d, j + 1) ELSE j

\* The binary exponent of n / d: m with 2^m <= n / d < 2^(m + 1).
FloorLog2(n, d) == IF n >= d THEN Log2Up(n, d, 0) ELSE -Log2Down(n, d, 1)

\* The scale of the doubles around n / PriceScale: they are the multiples of 2^-e.
FloatScale(n) == MantissaBits - FloorLog2(n, PriceScale)

\* float(n / PriceScale) = n / PriceScale - r / (PriceScale * 2^e), the nearest
\* multiple of 2^-e for e = FloatScale(n): this is r.
FloatError(n) ==
    LET r0 == ((n % PriceScale) * PowMod2(FloatScale(n), PriceScale)) % PriceScale
    IN  IF 2 * r0 < PriceScale THEN r0 ELSE r0 - PriceScale

\* n * q / PriceScale is a power of two.
IsPow2(M) ==
    LET m == FloorLog2(M, PriceScale)
    IN  IF m >= 0 THEN M = PriceScale * Pow2(m) ELSE M * Pow2(-m) = PriceScale

\* x rounded to a multiple of the spacing H, a tie going to the even multiple
\* when the multiple below has the parity given: the multiple, as a count of H.
RoundToGrid(x, H, belowOdd) ==
    LET k == x \div H
        rem == x % H
    IN  IF 2 * rem > H \/ (2 * rem = H /\ belowOdd # (k % 2 = 1)) THEN k + 1 ELSE k

\* The side of n * q / PriceScale on which float(n / PriceScale) * q lies once
\* rounded to a double: -1 below, 0 on it, 1 above.
FloatProductSide(n, q) ==
    IF n = 0 THEN 0
    ELSE
    LET M == n * q
        e2 == FloatScale(M)
        s == FloatScale(n) - e2
        U == PriceScale * Pow2(s)
        f == ((M % PriceScale) * PowMod2(e2, PriceScale)) % PriceScale
        odd == ((M % (2 * PriceScale)) * PowMod2(e2, 2 * PriceScale)) % (2 * PriceScale)
                  >= PriceScale
        t == f * Pow2(s)
        x == t - q * FloatError(n)
        pow2 == f = 0 /\ IsPow2(M)
        H == IF pow2 THEN U \div 2 ELSE U
        res == IF x >= 0 THEN RoundToGrid(x, U, odd) * U
               ELSE -(RoundToGrid(-x, H, IF pow2 THEN FALSE ELSE odd) * H)
    IN  IF res > t THEN 1 ELSE IF res < t THEN -1 ELSE 0

\* Mutant of Round2: the decimal amount is rounded, a tie to the even cent,
\* whatever the double holds.
Round2Decimal(mills, side) ==
    LET lo == mills \div 10
        r  == mills % 10
    IN  IF r < 5 THEN lo
        ELSE IF r > 5 THEN lo + 1
        ELSE IF lo % 2 = 0 THEN lo ELSE lo + 1

\* round(x, 2), in cents, of the double x that lies on the given side of the
\* decimal amount of mills: to the nearest cent; when the decimal amount is
\* half way between two cents the side decides, and the double that is
\* exactly half way goes to the even cent.
Round2(mills, side) ==
    LET lo == mills \div 10
        r  == mills % 10
    IN  IF r < 5 THEN lo
        ELSE IF r > 5 THEN lo + 1
        ELSE IF side < 0 THEN lo
        ELSE IF side > 0 THEN lo + 1
        ELSE IF lo % 2 = 0 THEN lo ELSE lo + 1

\* The inventory record find_one returns for product p.
InventoryOf(inv, p) == inv[FindIndex(inv, "product", p)]

\* find_one({product: p}) is not None.
Configured(inv, p) == FindIndex(inv, "product", p) # 0

\* ------------------------------------------------------------ responses
Ok(op, body) == [op |-> op, code |-> 200, err |-> "none", arg |-> 0, body |-> body]

\* raise HTTPException(code, detail); arg is the number the detail reports.
Fail(op, code, err, arg) == [op |-> op, code |-> code, err |-> err, arg |-> arg, body |-> <<>>]

\* to_str_id: _id becomes the string id, datetimes become ISO strings.
to_str_id(doc) ==
    [f \in ((DOMAIN doc) \ {"_id"}) \cup {"id"} |->
        IF f = "id" THEN StrId(doc["_id"])
        ELSE IF f \in {"created_at", "updated_at"} THEN IsoFormat(doc[f])
        ELSE doc[f]]

\* OrderOut(**d): the declared fields only.
OrderOut(d) ==
    [id |-> d.id, customer_id |-> d.customer_id, product |-> d.product,
     quantity_kg |-> d.quantity_kg, total_price_nzd |-> d.total_price_nzd,
     status |-> d.status, created_at |-> d.created_at, notes |-> d.notes,
     batch_index |-> d.batch_index]

\* A request served alone reads `now`, is logged, and the clock has moved on
\* when the next one starts.
Served(op) == now < MaxTime /\ now' = now + 1 /\ log' = Append(log, op)

\* ------------------------------------------------------------ create_order
\* total = round(price_per_kg * quantity_kg, 2), in cents.
OrderTotal(inv, q) ==
    Round2(Get(inv, "price_per_kg", 0) * q,
           FloatProductSide(Get(inv, "price_per_kg", 0), q))

\* new_available = float(available_kg) - quantity_kg, in 1/Den kg.
NewAvailable(inv, q) == Get(inv, "available_kg", 0) - q * Den

\* deficit = abs(new_available) if new_available < 0 else 0
Deficit(inv, q) ==
    IF NewAvailable(inv, q) < 0 THEN -NewAvailable(inv, q) ELSE 0

\* Mutant of BatchIndex: deficit // threshold, the offset of one forgotten.
BatchIndexNoOffset(inv, q) ==
    IF Deficit(inv, q) > 0
    THEN FloorDiv(Deficit(inv, q), Get(inv, "batch_threshold_kg", 15) * Den)
    ELSE 0

\* batch_index = (deficit - 1) // threshold if deficit > 0 else 0.  The floor
\* division of floats yields a whole number, which int() at line 273 keeps.
BatchIndex(inv, q) ==
    IF Deficit(inv, q) > 0
    THEN FloorDiv(Deficit(inv, q) - Den, Get(inv, "batch_threshold_kg", 15) * Den)
    ELSE 0

\* The checks of lines 238-243 on the customer id: the error raised, or Ok.
CustomerError(cust, cid) ==
    IF ~ObjectIdOk(cid) THEN Fail("create_order", 400, "InvalidReference", 0)
    ELSE IF FindIndex(cust, "_id", ObjectId(cid)) = 0
         THEN Fail("create_order", 404, "NotFound", 0)
         ELSE Ok("create_order", <<>>)

\* Mutant of QuantityError: the step is checked before the minimum.
QuantityErrorStepFirst(i, q) ==
    IF q % Get(i, "step_kg", 1) # 0
    THEN Fail("create_order", 400, "InvalidIncrement", Get(i, "step_kg", 1))
    ELSE IF q < Get(i, "min_kg", 1)
         THEN Fail("create_order", 400, "BelowMinimum", Get(i, "min_kg", 1))
         ELSE Ok("create_order", <<>>)

\* Mutant of QuantityError: the step is not checked.
QuantityErrorNoStep(i, q) ==
    IF q < Get(i, "min_kg", 1)
    THEN Fail("create_order", 400, "BelowMinimum", Get(i, "min_kg", 1))
    ELSE Ok("create_order", <<>>)

\* The checks of lines 250-255 on the inventory record read: the error, or Ok.
QuantityError(i, q) ==
    IF q < Get(i, "min_kg", 1)
    THEN Fail("create_order", 400, "BelowMinimum", Get(i, "min_kg", 1))
    ELSE IF q % Get(i, "step_kg", 1) # 0
         THEN Fail("create_order", 400, "InvalidIncrement", Get(i, "step_kg", 1))
         ELSE Ok("create_order", <<>>)

\* Mutant of OrderError: a missing inventory record is reported as 404 NotFound.
OrderErrorUnconfigured404(cust, inv, cid, p, q) ==
    IF CustomerError(cust, cid).code # 200 THEN CustomerError(cust, cid)
    ELSE IF FindIndex(inv, "product", p) = 0
         THEN Fail("create_order", 404, "NotFound", 0)
         ELSE QuantityError(inv[FindIndex(inv, "product", p)], q)

\* Mutant of OrderError: the inventory record is looked up and checked before
\* the customer.
OrderErrorInventoryFirst(cust, inv, cid, p, q) ==
    IF FindIndex(inv, "product", p) = 0
    THEN Fail("create_order", 400, "NotConfigured", 0)
    ELSE IF QuantityError(inv[FindIndex(inv, "product", p)], q).code # 200
         THEN QuantityError(inv[FindIndex(inv, "product", p)], q)
         ELSE CustomerError(cust, cid)

\* The whole validation chain of create_order, in the order of the code.
OrderError(cust, inv, cid, p, q) ==
    IF CustomerError(cust, cid).code # 200 THEN CustomerError(cust, cid)
    ELSE IF FindIndex(inv, "product", p) = 0
         THEN Fail("create_order", 400, "NotConfigured", 0)
         ELSE QuantityError(inv[FindIndex(inv, "product", p)], q)

\* order_doc as built at lines 266-276 from the inventory record read; tc and
\* tu are the clock as read at line 274 and at line 275.
OrderDoc(i, cid, p, q, notes, tc, tu) ==
    [customer_id |-> cid, product |-> p, quantity_kg |-> q,
     total_price_nzd |-> OrderTotal(i, q), status |-> "received",
     notes |-> notes, batch_index |-> BatchIndex(i, q),
     created_at |-> tc, updated_at |-> tu]

\* Mutant of DebitPayload: the stock read is forgotten, only the quantity is written.
DebitPayloadNoStock(i, q, t) == [available_kg |-> -(q * Den), updated_at |-> t]

\* Lines 283-285 on the saved order after to_str_id.  to_str_id has already
\* turned created_at into an ISO string, and .isoformat() on a string raises
\* AttributeError: the framework answers 500 Internal Server Error.  Only a
\* created_at that were still a datetime would be formatted and returned.
CreateOrderReturn(d) ==
    IF d.created_at[1] = "iso"
    THEN Fail("create_order", 500, "AttributeError", 0)
    ELSE Ok("create_order", <<OrderOut([d EXCEPT !.created_at = IsoFormat(@)])>>)

\* Mutant of DebitPayload: the quantity is taken off twice.
DebitPayloadTwice(i, q, t) == [available_kg |-> NewAvailable(i, 2 * q), updated_at |-> t]

\* The inventory write-back of line 280.
DebitPayload(i, q, t) == [available_kg |-> NewAvailable(i, q), updated_at |-> t]

\* POST /orders, run without interleaving and within one reading of the clock.
create_order(cid, p, q, notes) ==
    LET e == OrderError(customer, inventory, cid, p, q)
    IN  /\ Served("create_order")
        /\ IF e.code # 200
           THEN /\ resp' = e
                /\ UNCHANGED <<order, inventory>>
           ELSE LET i == inventory[FindIndex(inventory, "product", p)]
                IN  /\ order' = create_document(order, OrderDoc(i, cid, p, q, notes, now, now))
                    /\ inventory' = UpdateOne(inventory, i["_id"], DebitPayload(i, q, now))
                    /\ resp' = CreateOrderReturn(to_str_id(
                                    order'[FindIndex(order', "_id", ObjectId(NewId(order)))]))
        /\ UNCHANGED <<customer, procs>>

\* Mutant of StatusError: an id that matches no order is reported as malformed.
StatusErrorAbsent400(ord, oid) ==
    IF ~ObjectIdOk(oid) \/ MatchedCount(ord, ObjectId(oid)) = 0
    THEN Fail("update_order_status", 400, "InvalidReference", 0)
    ELSE Ok("update_order_status", <<>>)

\* The failures of update_order_status: lines 289-292 on the id, lines 294-295
\* on the matched count of the update; or Ok.
StatusError(ord, oid) ==
    IF ~ObjectIdOk(oid) THEN Fail("update_order_status", 400, "InvalidReference", 0)
    ELSE IF MatchedCount(ord, ObjectId(oid)) = 0
         THEN Fail("update_order_status", 404, "NotFound", 0)
         ELSE Ok("update_order_status", <<>>)

\* Mutant of StatusPayload: the update also restamps created_at.
StatusPayloadRestamped(status, t) == [status |-> status, updated_at |-> t, created_at |-> t]

\* The $set document of line 293.
StatusPayload(status, t) == [status |-> status, updated_at |-> t]

\* Position of a status in the documented lifecycle.
StatusRank(status) ==
    IF status = "received" THEN 1 ELSE IF status = "in_production" THEN 2 ELSE 3

\* Mutant of StatusUpdate: a transition that does not move forward is dropped.
StatusUpdateForwardOnly(ord, id, status, t) ==
    IF FindIndex(ord, "_id", id) # 0
       /\ StatusRank(status) <= StatusRank(ord[FindIndex(ord, "_id", id)].status)
    THEN ord
    ELSE UpdateOne(ord, id, StatusPayload(status, t))

\* db["order"].update_one({"_id": oid}, {"$set": {...}}) of line 293.
StatusUpdate(ord, id, status, t) == UpdateOne(ord, id, StatusPayload(status, t))

\* PATCH /orders/{order_id}/status.  to_str_id has made created_at a string,
\* so the isinstance test of line 298 is false and the string is returned.
update_order_status(oid, status) ==
    /\ Served("update_order_status")
    /\ IF ~ObjectIdOk(oid)
       THEN /\ resp' = StatusError(order, oid)
            /\ UNCHANGED order
       ELSE /\ order' = StatusUpdate(order, ObjectId(oid), status, now)
            /\ resp' = IF StatusError(order, oid).code # 200
                       THEN StatusError(order, oid)
                       ELSE Ok("update_order_status",
                               <<OrderOut(to_str_id(order'[FindIndex(order', "_id", ObjectId(oid))]))>>)
    /\ UNCHANGED <<customer, inventory, procs>>

\* GET /orders.  to_str_id has made created_at a string, which line 231 keeps.
list_orders ==
    /\ Served("list_orders")
    /\ resp' = Ok("list_orders",
                  [k \in 1..Len(get_documents(order)) |->
                      OrderOut(to_str_id(get_documents(order)[k]))])
    /\ UNCHANGED <<customer, inventory, order, procs>>

\* ------------------------------------------------------------ inventory
\* InventoryItemOut(**d): the declared fields only.
InventoryItemOut(d) ==
    [id |-> d.id, product |-> d.product, price_per_kg |-> d.price_per_kg,
     min_kg |-> d.min_kg, step_kg |-> d.step_kg, available_kg |-> d.available_kg,
     batch_threshold_kg |-> d.batch_threshold_kg]

\* [InventoryItemOut(**to_str_id(d)) for d in docs]
InventoryListing(docs) == [k \in 1..Len(docs) |-> InventoryItemOut(to_str_id(docs[k]))]

\* The default rows of list_inventory and seed_defaults.
DefaultItem(p) ==
    IF p = "suxhuk"
    THEN [product |-> "suxhuk", price_per_kg |-> 50000, min_kg |-> 1, step_kg |-> 1,
          available_kg |-> 0, batch_threshold_kg |-> 15]
    ELSE [product |-> "mish_te_teren", price_per_kg |-> 65000, min_kg |-> 3, step_kg |-> 1,
          available_kg |-> 0, batch_threshold_kg |-> 15]

\* existing_products = {d.get("product") for d in docs}
ExistingProducts(docs) ==
    {docs[k].product : k \in {j \in 1..Len(docs) : "product" \in DOMAIN docs[j]}}

\* Mutant of MissingDefaults: both defaults, whatever exists.
AllDefaults(docs) == <<DefaultItem("suxhuk"), DefaultItem("mish_te_teren")>>

\* defaults of list_inventory: the rows of the products that have no record.
MissingDefaults(docs) ==
    (IF "suxhuk" \notin ExistingProducts(docs) THEN <<DefaultItem("suxhuk")>> ELSE <<>>)
    \o (IF "mish_te_teren" \notin ExistingProducts(docs)
        THEN <<DefaultItem("mish_te_teren")>> ELSE <<>>)

\* for item in defaults: create_document("inventory", item)
RECURSIVE InsertAll(_, _)
InsertAll(coll, items) ==
    IF items = <<>> THEN coll
    ELSE InsertAll(create_document(coll, Head(items)), Tail(items))

\* GET /inventory, run without interleaving.
list_inventory ==
    /\ Served("list_inventory")
    /\ inventory' = InsertAll(inventory, MissingDefaults(get_documents(inventory)))
    /\ resp' = Ok("list_inventory", InventoryListing(get_documents(inventory')))
    /\ UNCHANGED <<customer, order, procs>>

\* Mutant of InventoryPayload: the step of the request is dropped for the default.
InventoryPayloadDefaultStep(item, t) == SetFields(item, [updated_at |-> t, step_kg |-> 1])

\* payload = item.model_dump() with updated_at stamped.
InventoryPayload(item, t) == SetFields(item, [updated_at |-> t])

\* POST /inventory, run without interleaving.
create_or_update_inventory(item) ==
    LET k == FindIndex(inventory, "product", item.product)
    IN  /\ Served("create_or_update_inventory")
        /\ IF k # 0
           THEN /\ inventory' = UpdateOne(inventory, inventory[k]["_id"], InventoryPayload(item, now))
                /\ resp' = Ok("create_or_update_inventory",
                              <<InventoryItemOut(to_str_id(
                                    inventory'[FindIndex(inventory', "_id", inventory[k]["_id"])]))>>)
           ELSE /\ inventory' = create_document(inventory, InventoryPayload(item, now))
                /\ resp' = Ok("create_or_update_inventory",
                              <<InventoryItemOut(to_str_id(
                                    inventory'[FindIndex(inventory', "_id", ObjectId(NewId(inventory)))]))>>)
        /\ UNCHANGED <<customer, order, procs>>

\* Mutant of UpdateInventoryError: the record is looked up before the path and
\* the body are compared.
UpdateInventoryErrorLookupFirst(inv, product, item) ==
    IF FindIndex(inv, "product", product) = 0
    THEN Fail("update_inventory", 404, "NotFound", 0)
    ELSE IF item.product # product
         THEN Fail("update_inventory", 400, "PathBodyMismatch", 0)
         ELSE Ok("update_inventory", <<>>)

\* The checks of lines 212-216: the error raised, or Ok.
UpdateInventoryError(inv, product, item) ==
    IF item.product # product
    THEN Fail("update_inventory", 400, "PathBodyMismatch", 0)
    ELSE IF FindIndex(inv, "product", product) = 0
         THEN Fail("update_inventory", 404, "NotFound", 0)
         ELSE Ok("update_inventory", <<>>)

\* PUT /inventory/{product}, run without interleaving.
update_inventory(product, item) ==
    LET k == FindIndex(inventory, "product", product)
    IN  /\ Served("update_inventory")
        /\ IF UpdateInventoryError(inventory, product, item).code # 200
           THEN /\ resp' = UpdateInventoryError(inventory, product, item)
                /\ UNCHANGED inventory
           ELSE /\ inventory' = UpdateOne(inventory, inventory[k]["_id"], InventoryPayload(item, now))
                /\ resp' = Ok("update_inventory",
                              <<InventoryItemOut(to_str_id(
                                    inventory'[FindIndex(inventory', "_id", inventory[k]["_id"])]))>>)
        /\ UNCHANGED <<customer, order, procs>>

\* Mutant of SeedOne: a record that is there is left as it is.
SeedOneKeepExisting(coll, item) ==
    IF FindIndex(coll, "product", item.product) # 0
    THEN coll
    ELSE create_document(coll, item)

\* One round of the loop of seed_defaults: update the record found, or insert.
SeedOne(coll, item) ==
    IF FindIndex(coll, "product", item.product) # 0
    THEN UpdateOne(coll, coll[FindIndex(coll, "product", item.product)]["_id"], item)
    ELSE create_document(coll, item)

\* POST /seed, run without interleaving.
seed_defaults ==
    /\ Served("seed_defaults")
    /\ inventory' = SeedOne(SeedOne(inventory, DefaultItem("suxhuk")), DefaultItem("mish_te_teren"))
    /\ resp' = Ok("seed_defaults", <<[status |-> "ok"]>>)
    /\ UNCHANGED <<customer, order, procs>>

\* ------------------------------------------------------------ customers
\* CustomerOut(**d): the declared fields only.
CustomerOut(d) ==
    [id |-> d.id, name |-> d.name, email |-> d.email, phone |-> d.phone,
     address |-> d.address, payment_methods |-> d.payment_methods]

\* Mutant of UpsertPayload: created_at is stamped anew on every upsert.
UpsertPayloadRestamped(data, existing, t) ==
    SetFields(data, [updated_at |-> t, created_at |-> t])

\* payload of upsert_customer; existing is <<>> for None, else <<the record>>.
UpsertPayload(data, existing, t) ==
    SetFields(data, [updated_at |-> t,
                     created_at |-> IF existing # <<>> THEN existing[1].created_at ELSE t])

\* POST /customers, run without interleaving.  (existing.get("created_at") is
\* the record's created_at: every customer record is inserted with one.)
upsert_customer(data) ==
    LET k == FindIndex(customer, "email", data.email)
        existing == IF k = 0 THEN <<>> ELSE <<customer[k]>>
    IN  /\ Served("upsert_customer")
        /\ IF k # 0
           THEN /\ customer' = UpdateOne(customer, customer[k]["_id"], UpsertPayload(data, existing, now))
                /\ resp' = Ok("upsert_customer",
                              <<CustomerOut(to_str_id(
                                    customer'[FindIndex(customer', "_id", customer[k]["_id"])]))>>)
           ELSE /\ customer' = create_document(customer, UpsertPayload(data, existing, now))
                /\ resp' = Ok("upsert_customer",
                              <<CustomerOut(to_str_id(
                                    customer'[FindIndex(customer', "_id", ObjectId(NewId(customer)))]))>>)
        /\ UNCHANGED <<inventory, order, procs>>

\* GET /customers
list_customers ==
    /\ Served("list_customers")
    /\ resp' = Ok("list_customers",
                  [k \in 1..Len(get_documents(customer)) |->
                      CustomerOut(to_str_id(get_documents(customer)[k]))])
    /\ UNCHANGED <<customer, inventory, order, procs>>

\* GET /customers/{customer_id}
get_customer(cid) ==
    /\ Served("get_customer")
    /\ resp' = IF ~ObjectIdOk(cid) THEN Fail("get_customer", 400, "InvalidReference", 0)
               ELSE IF FindIndex(customer, "_id", ObjectId(cid)) = 0
                    THEN Fail("get_customer", 404, "NotFound", 0)
                    ELSE Ok("get_customer",
                            <<CustomerOut(to_str_id(customer[FindIndex(customer, "_id", ObjectId(cid))]))>>)
    /\ UNCHANGED <<customer, inventory, order, procs>>

\* PUT /customers/{customer_id}
update_customer(cid, data) ==
    /\ Served("update_customer")
    /\ IF ~ObjectIdOk(cid)
       THEN /\ resp' = Fail("update_customer", 400, "InvalidReference", 0)
            /\ UNCHANGED customer
       ELSE /\ customer' = UpdateOne(customer, ObjectId(cid), SetFields(data, [updated_at |-> now]))
            /\ resp' = IF MatchedCount(customer, ObjectId(cid)) = 0
                       THEN Fail("update_customer", 404, "NotFound", 0)
                       ELSE Ok("update_customer",
                               <<CustomerOut(to_str_id(
                                    customer'[FindIndex(customer', "_id", ObjectId(cid))]))>>)
    /\ UNCHANGED <<inventory, order, procs>>

\* ------------------------------------------------------------ inputs
Names == {"Ana", "Ben"}

Emails == {"a@x.nz", "b@x.nz"}

\* Optional phone: None or a number.
Phones == {"None", "021"}

\* CustomerIn bodies; address and payment_methods at their defaults.
CustomerIn ==
    [name : Names, email : Emails, phone : Phones, address : {"None"},
     payment_methods : {<<>>}]

Notes == {"None", "gift"}

Quantities == {1, 2, 3, 12, 50}

\* Inventory rules <<price_per_kg, min_kg, step_kg, available_kg, batch_threshold_kg>>
\* that InventoryItemIn admits: the two seeded defaults, the stock of 10 kg,
\* a fractional stock at a fractional price (1.125 NZD, which a float holds
\* exactly), a step of 2 kg with batches of 2 kg, and a fractional backlog at
\* 2.675 NZD, which a float does not hold exactly.
InventoryRules ==
    { <<50000, 1, 1, 0, 15>>,
      <<65000, 3, 1, 0, 15>>,
      <<50000, 1, 1, 10 * Den, 15>>,
      <<1125, 1, 1, 1, 15>>,
      <<65000, 3, 2, 0, 2>>,
      <<2675, 1, 1, -(3 * Den) - 1, 2>> }

\* InventoryItemIn bodies for product p.
InventoryItemIn(p) ==
    { [product |-> p, price_per_kg |-> r[1], min_kg |-> r[2], step_kg |-> r[3],
       available_kg |-> r[4], batch_threshold_kg |-> r[5]] : r \in InventoryRules }

\* The inventory collections with zero or one record for each product: any
\* rule for suxhuk, and for mish_te_teren the rules at its price of 65 NZD.
InitInventories ==
    LET one(p) == {<<>>} \cup {<<i>> : i \in InventoryItemIn(p)}
        number(s) == [k \in 1..Len(s) |-> SetFields(s[k], [_id |-> k])]
    IN  {number(a \o b) :
            a \in one("suxhuk"),
            b \in {x \in one("mish_te_teren") : x = <<>> \/ x[1].price_per_kg = 65000}}

\* One customer, registered at time 0.
InitCustomers ==
    << [_id |-> 1, name |-> "Ana", email |-> "a@x.nz", phone |-> "021", address |-> "None",
        payment_methods |-> <<>>, created_at |-> 0, updated_at |-> 0] >>

\* Customer ids a request may carry: existing, absent, malformed.
CustomerIds == {StrId(1), StrId(2), BadId}

Init ==
    /\ customer = InitCustomers
    /\ inventory \in InitInventories
    /\ order = <<>>
    /\ now = 1
    /\ resp = Ok("none", <<>>)
    /\ log = <<>>
    /\ procs = <<>>

\* Order placement, one request at a time.
Next ==
    \E cid \in CustomerIds, p \in Products, q \in Quantities, n \in Notes :
        create_order(cid, p, q, n)

Spec == Init /\ [][Next]_vars

\* Paths of PUT /inventory/{product}: the products and a string that is neither.
PathProducts == Products \cup {"cheese"}

\* The inventory endpoints, one request at a time.
NextInventory ==
    \/ list_inventory
    \/ \E p \in Products : \E item \in InventoryItemIn(p) : create_or_update_inventory(item)
    \/ \E path \in PathProducts, p \in Products :
          \E item \in InventoryItemIn(p) : update_inventory(path, item)
    \/ seed_defaults

SpecInventory == Init /\ [][NextInventory]_vars

\* The customer collection before any request, or with one customer.
InitUpsert ==
    /\ customer \in {<<>>, InitCustomers}
    /\ inventory = <<>>
    /\ order = <<>>
    /\ now = 1
    /\ resp = Ok("none", <<>>)
    /\ log = <<>>
    /\ procs = <<>>

\* POST /customers and the customer reads, one request at a time.
NextUpsert ==
    \/ \E data \in CustomerIn : upsert_customer(data)
    \/ \E cid \in CustomerIds : get_customer(cid)
    \/ list_customers

SpecUpsert == InitUpsert /\ [][NextUpsert]_vars

\* POST /customers and PUT /customers/{id}, one request at a time.
NextCustomers ==
    \/ \E data \in CustomerIn : upsert_customer(data)
    \/ \E cid \in CustomerIds, data \in CustomerIn : update_customer(cid, data)

SpecCustomers == InitUpsert /\ [][NextCustomers]_vars

\* ------------------------------------------------------------ interleaved requests
\* Each request in flight is a process: procs[pr] holds its position (pc), its
\* request and what it has read so far.  Every storage read or write is a
\* step, and so is every reading of the clock.
Procs == 1..NumProcs

Idle == [pc |-> "idle"]

Done(pr) == procs[pr].pc = "done"

\* The process moves on with these locals changed.
Goto(pr, changes) == procs' = [procs EXCEPT ![pr] = SetFields(procs[pr], changes)]

Finish(pr, response) == Goto(pr, [pc |-> "done", resp |-> response])

StoreUnchanged == UNCHANGED <<customer, inventory, order>>

\* The clock advances while requests are in flight; a request reads it in a
\* step of its own, before the write that carries the reading.
Tick ==
    /\ now < MaxTime
    /\ now' = now + 1
    /\ UNCHANGED <<customer, inventory, order, resp, log, procs>>

\* POST /orders arrives.
co_start(pr, cid, p, q, n) ==
    /\ procs[pr].pc = "idle"
    /\ procs' = [procs EXCEPT ![pr] =
                    [pc |-> "co_find_customer", op |-> "create_order",
                     cid |-> cid, p |-> p, q |-> q, notes |-> n]]
    /\ StoreUnchanged /\ UNCHANGED <<now, resp, log>>

\* lines 238-243: the customer lookup.
co_find_customer(pr) ==
    /\ procs[pr].pc = "co_find_customer"
    /\ IF CustomerError(customer, procs[pr].cid).code # 200
       THEN Finish(pr, CustomerError(customer, procs[pr].cid))
       ELSE Goto(pr, [pc |-> "co_find_inventory"])
    /\ StoreUnchanged /\ UNCHANGED <<now, resp, log>>

\* lines 246-264: the inventory read, and the checks and sums on what was read.
co_find_inventory(pr) ==
    /\ procs[pr].pc = "co_find_inventory"
    /\ IF ~Configured(inventory, procs[pr].p)
       THEN Finish(pr, Fail("create_order", 400, "NotConfigured", 0))
       ELSE IF QuantityError(InventoryOf(inventory, procs[pr].p), procs[pr].q).code # 200
       THEN Finish(pr, QuantityError(InventoryOf(inventory, procs[pr].p), procs[pr].q))
       ELSE Goto(pr, [pc |-> "co_stamp_created", inv |-> InventoryOf(inventory, procs[pr].p)])
    /\ StoreUnchanged /\ UNCHANGED <<now, resp, log>>

\* line 274: the clock is read for created_at.
co_stamp_created(pr) ==
    /\ procs[pr].pc = "co_stamp_created"
    /\ Goto(pr, [pc |-> "co_stamp_updated", created_at |-> now])
    /\ StoreUnchanged /\ UNCHANGED <<now, resp, log>>

\* line 275: the clock is read again for updated_at.
co_stamp_updated(pr) ==
    /\ procs[pr].pc = "co_stamp_updated"
    /\ Goto(pr, [pc |-> "co_insert_order", updated_at |-> now])
    /\ StoreUnchanged /\ UNCHANGED <<now, resp, log>>

\* line 277: the insert of the order_doc built at lines 266-276.
co_insert_order(pr) ==
    /\ procs[pr].pc = "co_insert_order"
    /\ order' = create_document(order, OrderDoc(procs[pr].inv, procs[pr].cid, procs[pr].p,
                                                procs[pr].q, procs[pr].notes,
                                                procs[pr].created_at, procs[pr].updated_at))
    /\ Goto(pr, [pc |-> "co_stamp_debit", new_id |-> NewId(order)])
    /\ UNCHANGED <<customer, inventory, now, resp, log>>

\* line 280, the $set document: the clock is read for the stock's updated_at.
co_stamp_debit(pr) ==
    /\ procs[pr].pc = "co_stamp_debit"
    /\ Goto(pr, [pc |-> "co_update_inventory", debit_at |-> now])
    /\ StoreUnchanged /\ UNCHANGED <<now, resp, log>>

\* line 280: the write-back of the stock computed from the record read earlier.
co_update_inventory(pr) ==
    /\ procs[pr].pc = "co_update_inventory"
    /\ inventory' = UpdateOne(inventory, procs[pr].inv["_id"],
                              DebitPayload(procs[pr].inv, procs[pr].q, procs[pr].debit_at))
    /\ Goto(pr, [pc |-> "co_find_saved"])
    /\ UNCHANGED <<customer, order, now, resp, log>>

\* lines 282-285: the saved order is read back and the return is attempted.
co_find_saved(pr) ==
    /\ procs[pr].pc = "co_find_saved"
    /\ Finish(pr, CreateOrderReturn(to_str_id(
                      order[FindIndex(order, "_id", ObjectId(procs[pr].new_id))])))
    /\ StoreUnchanged /\ UNCHANGED <<now, resp, log>>

\* GET /inventory arrives.
li_start(pr) ==
    /\ procs[pr].pc = "idle"
    /\ procs' = [procs EXCEPT ![pr] = [pc |-> "li_read", op |-> "list_inventory"]]
    /\ StoreUnchanged /\ UNCHANGED <<now, resp, log>>

\* lines 170-191: the first read, and the defaults it finds missing.
li_read(pr) ==
    /\ procs[pr].pc = "li_read"
    /\ Goto(pr, [pc |-> "li_insert", todo |-> MissingDefaults(get_documents(inventory))])
    /\ StoreUnchanged /\ UNCHANGED <<now, resp, log>>

\* lines 192-193: one create_document of the loop.
li_insert(pr) ==
    /\ procs[pr].pc = "li_insert"
    /\ procs[pr].todo # <<>>
    /\ inventory' = create_document(inventory, Head(procs[pr].todo))
    /\ Goto(pr, [todo |-> Tail(procs[pr].todo)])
    /\ UNCHANGED <<customer, order, now, resp, log>>

\* lines 194-195: the second read, returned.
li_reread(pr) ==
    /\ procs[pr].pc = "li_insert"
    /\ procs[pr].todo = <<>>
    /\ Finish(pr, Ok("list_inventory", InventoryListing(get_documents(inventory))))
    /\ StoreUnchanged /\ UNCHANGED <<now, resp, log>>

\* POST /inventory arrives.
cu_start(pr, item) ==
    /\ procs[pr].pc = "idle"
    /\ procs' = [procs EXCEPT ![pr] =
                    [pc |-> "cu_find", op |-> "create_or_update_inventory", item |-> item]]
    /\ StoreUnchanged /\ UNCHANGED <<now, resp, log>>

\* line 199: existing = find_one({product}); 0 stands for None.
cu_find(pr) ==
    /\ procs[pr].pc = "cu_find"
    /\ Goto(pr, [pc |-> "cu_stamp",
                 existing |-> IF Configured(inventory, procs[pr].item.product)
                              THEN InventoryOf(inventory, procs[pr].item.product)["_id"]
                              ELSE 0])
    /\ StoreUnchanged /\ UNCHANGED <<now, resp, log>>

\* line 201: the clock is read for updated_at.
cu_stamp(pr) ==
    /\ procs[pr].pc = "cu_stamp"
    /\ Goto(pr, [pc |-> "cu_write", t |-> now])
    /\ StoreUnchanged /\ UNCHANGED <<now, resp, log>>

\* lines 202-206: update the record found, or insert.
cu_write(pr) ==
    /\ procs[pr].pc = "cu_write"
    /\ IF procs[pr].existing # 0
       THEN /\ inventory' = UpdateOne(inventory, procs[pr].existing,
                                      InventoryPayload(procs[pr].item, procs[pr].t))
            /\ Goto(pr, [pc |-> "cu_reread"])
       ELSE /\ inventory' = create_document(inventory,
                                            InventoryPayload(procs[pr].item, procs[pr].t))
            /\ Goto(pr, [pc |-> "cu_reread", existing |-> ObjectId(NewId(inventory))])
    /\ UNCHANGED <<customer, order, now, resp, log>>

\* lines 204, 207: the record is read back and returned.
cu_reread(pr) ==
    /\ procs[pr].pc = "cu_reread"
    /\ Finish(pr, Ok("create_or_update_inventory",
                     <<InventoryItemOut(to_str_id(
                          inventory[FindIndex(inventory, "_id", procs[pr].existing)]))>>))
    /\ StoreUnchanged /\ UNCHANGED <<now, resp, log>>

\* PUT /inventory/{product} arrives.
ui_start(pr, product, item) ==
    /\ procs[pr].pc = "idle"
    /\ procs' = [procs EXCEPT ![pr] =
                    [pc |-> "ui_find", op |-> "update_inventory",
                     product |-> product, item |-> item]]
    /\ StoreUnchanged /\ UNCHANGED <<now, resp, log>>

\* lines 212-216: the path check and the lookup.
ui_find(pr) ==
    /\ procs[pr].pc = "ui_find"
    /\ IF procs[pr].item.product # procs[pr].product
       THEN Finish(pr, Fail("update_inventory", 400, "PathBodyMismatch", 0))
       ELSE IF ~Configured(inventory, procs[pr].product)
       THEN Finish(pr, Fail("update_inventory", 404, "NotFound", 0))
       ELSE Goto(pr, [pc |-> "ui_stamp",
                      existing |-> InventoryOf(inventory, procs[pr].product)["_id"]])
    /\ StoreUnchanged /\ UNCHANGED <<now, resp, log>>

\* line 218: the clock is read for updated_at.
ui_stamp(pr) ==
    /\ procs[pr].pc = "ui_stamp"
    /\ Goto(pr, [pc |-> "ui_write", t |-> now])
    /\ StoreUnchanged /\ UNCHANGED <<now, resp, log>>

\* line 219: the update.
ui_write(pr) ==
    /\ procs[pr].pc = "ui_write"
    /\ inventory' = UpdateOne(inventory, procs[pr].existing,
                              InventoryPayload(procs[pr].item, procs[pr].t))
    /\ Goto(pr, [pc |-> "ui_reread"])
    /\ UNCHANGED <<customer, order, now, resp, log>>

\* lines 220-221: the record is read back and returned.
ui_reread(pr) ==
    /\ procs[pr].pc = "ui_reread"
    /\ Finish(pr, Ok("update_inventory",
                     <<InventoryItemOut(to_str_id(
                          inventory[FindIndex(inventory, "_id", procs[pr].existing)]))>>))
    /\ StoreUnchanged /\ UNCHANGED <<now, resp, log>>

\* POST /seed arrives.
sd_start(pr) ==
    /\ procs[pr].pc = "idle"
    /\ procs' = [procs EXCEPT ![pr] =
                    [pc |-> "sd_find", op |-> "seed_defaults",
                     todo |-> <<DefaultItem("suxhuk"), DefaultItem("mish_te_teren")>>]]
    /\ StoreUnchanged /\ UNCHANGED <<now, resp, log>>

\* line 325: the lookup of one round of the loop; line 330 once the loop is over.
sd_find(pr) ==
    /\ procs[pr].pc = "sd_find"
    /\ IF procs[pr].todo = <<>>
       THEN Finish(pr, Ok("seed_defaults", <<[status |-> "ok"]>>))
       ELSE Goto(pr, [pc |-> "sd_write",
                      existing |-> IF Configured(inventory, Head(procs[pr].todo).product)
                                   THEN InventoryOf(inventory, Head(procs[pr].todo).product)["_id"]
                                   ELSE 0])
    /\ StoreUnchanged /\ UNCHANGED <<now, resp, log>>

\* lines 326-329: update the record found, or insert.
sd_write(pr) ==
    /\ procs[pr].pc = "sd_write"
    /\ inventory' = IF procs[pr].existing # 0
                    THEN UpdateOne(inventory, procs[pr].existing, Head(procs[pr].todo))
                    ELSE create_document(inventory, Head(procs[pr].todo))
    /\ Goto(pr, [pc |-> "sd_find", todo |-> Tail(procs[pr].todo)])
    /\ UNCHANGED <<customer, order, now, resp, log>>

\* The stock the interleaved orders start from: 10 kg of suxhuk, the seeded
\* default of mish_te_teren.
StockedInventory ==
    << [_id |-> 1, product |-> "suxhuk", price_per_kg |-> 50000, min_kg |-> 1, step_kg |-> 1,
        available_kg |-> 10 * Den, batch_threshold_kg |-> 15],
       SetFields(DefaultItem("mish_te_teren"), [_id |-> 2]) >>

InitialStock(p) == InventoryOf(StockedInventory, p).available_kg

\* Quantities of the interleaved orders.
ConcQuantities == {2, 12}

InitOrders ==
    /\ customer = InitCustomers
    /\ inventory = StockedInventory
    /\ order = <<>>
    /\ now = 1
    /\ resp = Ok("none", <<>>)
    /\ log = <<>>
    /\ procs = [pr \in Procs |-> Idle]

\* POST /orders requests served at once, each storage operation a step.
NextOrders ==
    \/ \E pr \in Procs, cid \in CustomerIds, p \in Products, q \in ConcQuantities :
          co_start(pr, cid, p, q, "None")
    \/ \E pr \in Procs : co_find_customer(pr)
    \/ \E pr \in Procs : co_find_inventory(pr)
    \/ \E pr \in Procs : co_stamp_created(pr)
    \/ \E pr \in Procs : co_stamp_updated(pr)
    \/ \E pr \in Procs : co_insert_order(pr)
    \/ \E pr \in Procs : co_stamp_debit(pr)
    \/ \E pr \in Procs : co_update_inventory(pr)
    \/ \E pr \in Procs : co_find_saved(pr)
    \/ Tick

SpecOrders == InitOrders /\ [][NextOrders]_vars

\* Bodies of the interleaved inventory requests: the default rules, for either product.
ConcItems(p) == {i \in InventoryItemIn(p) : i.available_kg = 0 /\ i.batch_threshold_kg = 15}

\* Zero or one record for each product, before the interleaved requests.
InitCatalogue ==
    /\ customer = InitCustomers
    /\ inventory \in {inv \in InitInventories :
                         \A k \in 1..Len(inv) :
                            \E i \in ConcItems(inv[k].product) : inv[k] = SetFields(i, [_id |-> k])}
    /\ order = <<>>
    /\ now = 1
    /\ resp = Ok("none", <<>>)
    /\ log = <<>>
    /\ procs = [pr \in Procs |-> Idle]

\* Inventory requests served at once, each storage operation a step.
NextCatalogue ==
    \/ \E pr \in Procs : li_start(pr)
    \/ \E pr \in Procs : li_read(pr)
    \/ \E pr \in Procs : li_insert(pr)
    \/ \E pr \in Procs : li_reread(pr)
    \/ \E pr \in Procs, p \in Products : \E item \in ConcItems(p) : cu_start(pr, item)
    \/ \E pr \in Procs : cu_find(pr)
    \/ \E pr \in Procs : cu_stamp(pr)
    \/ \E pr \in Procs : cu_write(pr)
    \/ \E pr \in Procs : cu_reread(pr)
    \/ \E pr \in Procs, path \in PathProducts, p \in Products :
          \E item \in ConcItems(p) : ui_start(pr, path, item)
    \/ \E pr \in Procs : ui_find(pr)
    \/ \E pr \in Procs : ui_stamp(pr)
    \/ \E pr \in Procs : ui_write(pr)
    \/ \E pr \in Procs : ui_reread(pr)
    \/ \E pr \in Procs : sd_start(pr)
    \/ \E pr \in Procs : sd_find(pr)
    \/ \E pr \in Procs : sd_write(pr)
    \/ Tick

SpecCatalogue == InitCatalogue /\ [][NextCatalogue]_vars

\* The process serving a create_order request stops between two storage
\* steps: what it has written stays, what it had still to write is never written.
co_crash(pr) ==
    /\ procs[pr].pc \in {"co_find_customer", "co_find_inventory", "co_stamp_created",
                          "co_stamp_updated", "co_insert_order", "co_stamp_debit",
                          "co_update_inventory", "co_find_saved"}
    /\ Goto(pr, [pc |-> "crashed"])
    /\ StoreUnchanged /\ UNCHANGED <<now, resp, log>>

\* POST /orders requests served at once, any of which may stop at any step.
\* They are all served within one reading of the clock, which only the
\* timestamps written depend on.
NextCrash ==
    \/ \E pr \in Procs, cid \in CustomerIds, p \in Products, q \in ConcQuantities :
          co_start(pr, cid, p, q, "None")
    \/ \E pr \in Procs : co_find_customer(pr)
    \/ \E pr \in Procs : co_find_inventory(pr)
    \/ \E pr \in Procs : co_stamp_created(pr)
    \/ \E pr \in Procs : co_stamp_updated(pr)
    \/ \E pr \in Procs : co_insert_order(pr)
    \/ \E pr \in Procs : co_stamp_debit(pr)
    \/ \E pr \in Procs : co_update_inventory(pr)
    \/ \E pr \in Procs : co_find_saved(pr)
    \/ \E pr \in Procs : co_crash(pr)

SpecCrash == InitOrders /\ [][NextCrash]_vars

\* ------------------------------------------------------------ the whole API
\* The store after two orders placed at time 0 against StockedInventory by the
\* one customer: 12 kg of suxhuk with a note, then 3 kg of mish_te_teren.
PlacedOrders ==
    create_document(
        create_document(<<>>,
            OrderDoc(InventoryOf(StockedInventory, "suxhuk"), StrId(1), "suxhuk", 12, "gift", 0, 0)),
        OrderDoc(InventoryOf(StockedInventory, "mish_te_teren"), StrId(1), "mish_te_teren", 3, "None", 0, 0))

DebitedInventory ==
    UpdateOne(
        UpdateOne(StockedInventory, 1,
                  DebitPayload(InventoryOf(StockedInventory, "suxhuk"), 12, 0)),
        2, DebitPayload(InventoryOf(StockedInventory, "mish_te_teren"), 3, 0))

\* Ids a status update may carry: the two orders, an absent one, a malformed one.
OrderIds == {StrId(1), StrId(2), StrId(3), BadId}

\* Customer bodies of the whole-API runs: one name, either email.
ApiCustomers == {d \in CustomerIn : d.name = "Ben" /\ d.phone = "None"}

\* The first order has reached any status of the lifecycle.
InitApi ==
    /\ customer = InitCustomers
    /\ inventory = DebitedInventory
    /\ order \in {StatusUpdate(PlacedOrders, 1, s, 0) : s \in Statuses}
    /\ now = 1
    /\ resp = Ok("none", <<>>)
    /\ log = <<>>
    /\ procs = <<>>

\* Every endpoint of the API, one request at a time.
NextApi ==
    \/ \E oid \in OrderIds, s \in Statuses : update_order_status(oid, s)
    \/ \E cid \in CustomerIds, p \in Products, q \in ConcQuantities, n \in Notes :
          create_order(cid, p, q, n)
    \/ list_orders
    \/ list_customers
    \/ \E cid \in CustomerIds : get_customer(cid)
    \/ \E data \in ApiCustomers : upsert_customer(data)
    \/ \E cid \in CustomerIds, data \in ApiCustomers : update_customer(cid, data)
    \/ list_inventory
    \/ \E p \in Products : \E item \in ConcItems(p) : create_or_update_inventory(item)
    \/ \E path \in PathProducts, p \in Products :
          \E item \in ConcItems(p) : update_inventory(path, item)
    \/ seed_defaults

SpecApi == InitApi /\ [][NextApi]_vars

\* ------------------------------------------------------------ interleaved status and customer requests
\* PATCH /orders/{order_id}/status arrives.
us_start(pr, oid, status) ==
    /\ procs[pr].pc = "idle"
    /\ procs' = [procs EXCEPT ![pr] =
                    [pc |-> "us_stamp", op |-> "update_order_status",
                     oid |-> oid, status |-> status]]
    /\ StoreUnchanged /\ UNCHANGED <<now, resp, log>>

\* lines 289-293: the id is parsed, then the clock is read for the $set document.
us_stamp(pr) ==
    /\ procs[pr].pc = "us_stamp"
    /\ IF ~ObjectIdOk(procs[pr].oid)
       THEN Finish(pr, Fail("update_order_status", 400, "InvalidReference", 0))
       ELSE Goto(pr, [pc |-> "us_update", t |-> now])
    /\ StoreUnchanged /\ UNCHANGED <<now, resp, log>>

\* lines 293-295: the update, and the test of its matched count.
us_update(pr) ==
    /\ procs[pr].pc = "us_update"
    /\ order' = StatusUpdate(order, ObjectId(procs[pr].oid), procs[pr].status, procs[pr].t)
    /\ IF StatusError(order, procs[pr].oid).code # 200
       THEN Finish(pr, StatusError(order, procs[pr].oid))
       ELSE Goto(pr, [pc |-> "us_find"])
    /\ UNCHANGED <<customer, inventory, now, resp, log>>

\* lines 296-300: the order is read back and returned as it is by then.
us_find(pr) ==
    /\ procs[pr].pc = "us_find"
    /\ Finish(pr, Ok("update_order_status",
                     <<OrderOut(to_str_id(
                          order[FindIndex(order, "_id", ObjectId(procs[pr].oid))]))>>))
    /\ StoreUnchanged /\ UNCHANGED <<now, resp, log>>

\* GET /orders arrives.
lo_start(pr) ==
    /\ procs[pr].pc = "idle"
    /\ procs' = [procs EXCEPT ![pr] = [pc |-> "lo_read", op |-> "list_orders"]]
    /\ StoreUnchanged /\ UNCHANGED <<now, resp, log>>

\* lines 227-233: the one read of the collection, and the listing of what was read.
lo_read(pr) ==
    /\ procs[pr].pc = "lo_read"
    /\ Finish(pr, Ok("list_orders",
                     [k \in 1..Len(get_documents(order)) |->
                         OrderOut(to_str_id(get_documents(order)[k]))]))
    /\ StoreUnchanged /\ UNCHANGED <<now, resp, log>>

\* POST /customers arrives.
up_start(pr, data) ==
    /\ procs[pr].pc = "idle"
    /\ procs' = [procs EXCEPT ![pr] = [pc |-> "up_find", op |-> "upsert_customer", data |-> data]]
    /\ StoreUnchanged /\ UNCHANGED <<now, resp, log>>

\* line 130: existing = find_one({email}); <<>> stands for None.
up_find(pr) ==
    /\ procs[pr].pc = "up_find"
    /\ Goto(pr, [pc |-> "up_stamp",
                 existing |-> IF FindIndex(customer, "email", procs[pr].data.email) = 0
                              THEN <<>>
                              ELSE <<customer[FindIndex(customer, "email", procs[pr].data.email)]>>])
    /\ StoreUnchanged /\ UNCHANGED <<now, resp, log>>

\* line 131: the clock is read once for the payload.
up_stamp(pr) ==
    /\ procs[pr].pc = "up_stamp"
    /\ Goto(pr, [pc |-> "up_write", t |-> now])
    /\ StoreUnchanged /\ UNCHANGED <<now, resp, log>>

\* lines 133-138: the payload built from the record read at line 130 is written
\* onto that record, or inserted when none was read.
up_write(pr) ==
    /\ procs[pr].pc = "up_write"
    /\ IF procs[pr].existing # <<>>
       THEN /\ customer' = UpdateOne(customer, procs[pr].existing[1]["_id"],
                                     UpsertPayload(procs[pr].data, procs[pr].existing, procs[pr].t))
            /\ Goto(pr, [pc |-> "up_reread", saved |-> procs[pr].existing[1]["_id"]])
       ELSE /\ customer' = create_document(customer,
                                UpsertPayload(procs[pr].data, procs[pr].existing, procs[pr].t))
            /\ Goto(pr, [pc |-> "up_reread", saved |-> ObjectId(NewId(customer))])
    /\ UNCHANGED <<inventory, order, now, resp, log>>

\* lines 136, 139-140: the record is read back and returned as it is by then.
up_reread(pr) ==
    /\ procs[pr].pc = "up_reread"
    /\ Finish(pr, Ok("upsert_customer",
                     <<CustomerOut(to_str_id(
                          customer[FindIndex(customer, "_id", procs[pr].saved)]))>>))
    /\ StoreUnchanged /\ UNCHANGED <<now, resp, log>>

\* PUT /customers/{customer_id} arrives.
pu_start(pr, cid, data) ==
    /\ procs[pr].pc = "idle"
    /\ procs' = [procs EXCEPT ![pr] =
                    [pc |-> "pu_stamp", op |-> "update_customer", cid |-> cid, data |-> data]]
    /\ StoreUnchanged /\ UNCHANGED <<now, resp, log>>

\* lines 154-159: the id is parsed, then the clock is read for the payload.
pu_stamp(pr) ==
    /\ procs[pr].pc = "pu_stamp"
    /\ IF ~ObjectIdOk(procs[pr].cid)
       THEN Finish(pr, Fail("update_customer", 400, "InvalidReference", 0))
       ELSE Goto(pr, [pc |-> "pu_update", t |-> now])
    /\ StoreUnchanged /\ UNCHANGED <<now, resp, log>>

\* lines 160-162: the update, and the test of its matched count.
pu_update(pr) ==
    /\ procs[pr].pc = "pu_update"
    /\ customer' = UpdateOne(customer, ObjectId(procs[pr].cid),
                             SetFields(procs[pr].data, [updated_at |-> procs[pr].t]))
    /\ IF MatchedCount(customer, ObjectId(procs[pr].cid)) = 0
       THEN Finish(pr, Fail("update_customer", 404, "NotFound", 0))
       ELSE Goto(pr, [pc |-> "pu_find"])
    /\ UNCHANGED <<inventory, order, now, resp, log>>

\* lines 163-164: the record is read back and returned as it is by then.
pu_find(pr) ==
    /\ procs[pr].pc = "pu_find"
    /\ Finish(pr, Ok("update_customer",
                     <<CustomerOut(to_str_id(
                          customer[FindIndex(customer, "_id", ObjectId(procs[pr].cid))]))>>))
    /\ StoreUnchanged /\ UNCHANGED <<now, resp, log>>

\* Two orders placed, the first in any status, before the interleaved requests.
InitStatus ==
    /\ customer = InitCustomers
    /\ inventory = DebitedInventory
    /\ order \in {StatusUpdate(PlacedOrders, 1, s, 0) : s \in Statuses}
    /\ now = 1
    /\ resp = Ok("none", <<>>)
    /\ log = <<>>
    /\ procs = [pr \in Procs |-> Idle]

\* The requests that read or write orders, served at once, each storage
\* operation and each reading of the clock a step.  They are all served within
\* one reading of the clock, which only the timestamps written depend on.
NextStatus ==
    \/ \E pr \in Procs, oid \in OrderIds, s \in Statuses : us_start(pr, oid, s)
    \/ \E pr \in Procs : us_stamp(pr)
    \/ \E pr \in Procs : us_update(pr)
    \/ \E pr \in Procs : us_find(pr)
    \/ \E pr \in Procs, cid \in CustomerIds, p \in Products, q \in ConcQuantities :
          co_start(pr, cid, p, q, "None")
    \/ \E pr \in Procs : co_find_customer(pr)
    \/ \E pr \in Procs : co_find_inventory(pr)
    \/ \E pr \in Procs : co_stamp_created(pr)
    \/ \E pr \in Procs : co_stamp_updated(pr)
    \/ \E pr \in Procs : co_insert_order(pr)
    \/ \E pr \in Procs : co_stamp_debit(pr)
    \/ \E pr \in Procs : co_update_inventory(pr)
    \/ \E pr \in Procs : co_find_saved(pr)
    \/ \E pr \in Procs : lo_start(pr)
    \/ \E pr \in Procs : lo_read(pr)

SpecStatus == InitStatus /\ [][NextStatus]_vars

\* Customer bodies of the interleaved requests: either name, either email.
StepCustomers == {d \in CustomerIn : d.phone = "None"}

\* No customer or one, before the interleaved requests.
InitCustomerSteps ==
    /\ customer \in {<<>>, InitCustomers}
    /\ inventory = <<>>
    /\ order = <<>>
    /\ now = 1
    /\ resp = Ok("none", <<>>)
    /\ log = <<>>
    /\ procs = [pr \in Procs |-> Idle]

\* POST /customers and PUT /customers/{id} served at once, each storage
\* operation and each reading of the clock a step.
NextCustomerSteps ==
    \/ \E pr \in Procs, data \in StepCustomers : up_start(pr, data)
    \/ \E pr \in Procs : up_find(pr)
    \/ \E pr \in Procs : up_stamp(pr)
    \/ \E pr \in Procs : up_write(pr)
    \/ \E pr \in Procs : up_reread(pr)
    \/ \E pr \in Procs, cid \in CustomerIds, data \in StepCustomers : pu_start(pr, cid, data)
    \/ \E pr \in Procs : pu_stamp(pr)
    \/ \E pr \in Procs : pu_update(pr)
    \/ \E pr \in Procs : pu_find(pr)
    \/ Tick

SpecCustomerSteps == InitCustomerSteps /\ [][NextCustomerSteps]_vars

\* ------------------------------------------------------------ claims on order placement
\* The customer id of the request resolves to a customer.
Resolves(cid) == CustomerError(customer, cid).code = 200

\* The request passes every precondition of create_order.
Valid(cid, p, q) ==
    /\ Resolves(cid)
    /\ Configured(inventory, p)
    /\ q >= InventoryOf(inventory, p).min_kg
    /\ q % InventoryOf(inventory, p).step_kg = 0

\* The step is create_order(cid, p, q, n) on a request that passes every
\* precondition: the order is accepted and persisted.  (The response to it is
\* the 500 of CreateOrderReturn; the claims on accepted orders are about the
\* store.)
Accepted(cid, p, q, n) == Valid(cid, p, q) /\ create_order(cid, p, q, n)

\* C2: for every accepted order, batch_index is 0 when deficit = 0 and otherwise
\* floor((deficit - 1) / batch_threshold_kg), with new_available = available_kg -
\* quantity_kg and deficit = max(0, -new_available); 10 kg in stock, threshold
\* 15, order 12 gives 0 and 0 kg in stock, threshold 15, order 50 gives 3.
C2_BatchIndexFormula ==
    [][\A cid \in CustomerIds, p \in Products, q \in Quantities, n \in Notes :
        Accepted(cid, p, q, n) =>
            LET i == InventoryOf(inventory, p)
                new_available == i.available_kg - q * Den
                deficit == IF -new_available > 0 THEN -new_available ELSE 0
                t == i.batch_threshold_kg * Den
                b == order'[Len(order')].batch_index
            IN  /\ deficit = 0 => b = 0
                /\ deficit # 0 => b * t <= deficit - Den /\ deficit - Den < (b + 1) * t
                /\ (i.available_kg = 10 * Den /\ t = 15 * Den /\ q = 12) => b = 0
                /\ (i.available_kg = 0 /\ t = 15 * Den /\ q = 50) => b = 3
    ]_vars

\* C2 witness: the order of 50 kg against an empty stock sits in batch 3.
C2_Witness ==
    /\ resp.op = "create_order"
    /\ \E k \in 1..Len(order) :
          /\ order[k].quantity_kg = 50 /\ order[k].batch_index = 3
          /\ InventoryOf(inventory, order[k].product).available_kg = -(50 * Den)
          /\ InventoryOf(inventory, order[k].product).batch_threshold_kg = 15

\* C3: every order persisted by create_order has a non-negative batch_index.
C3_BatchIndexNonNegative ==
    \A k \in 1..Len(order) : order[k].batch_index >= 0

\* C4 as stated: create_order for a product without an inventory record always
\* fails with NotConfigured (400) and writes nothing.
C4_Original ==
    [][\A cid \in CustomerIds, p \in Products, q \in Quantities, n \in Notes :
        (~Configured(inventory, p) /\ create_order(cid, p, q, n)) =>
            /\ resp'.code = 400 /\ resp'.err = "NotConfigured"
            /\ UNCHANGED <<customer, inventory, order>>
    ]_vars

\* C4 amended: create_order for a product without an inventory record always
\* fails and writes nothing; when the customer id resolves to an existing
\* customer the failure is NotConfigured (400).
C4_NotConfigured ==
    [][\A cid \in CustomerIds, p \in Products, q \in Quantities, n \in Notes :
        (~Configured(inventory, p) /\ create_order(cid, p, q, n)) =>
            /\ resp'.code # 200
            /\ Resolves(cid) => resp'.code = 400 /\ resp'.err = "NotConfigured"
            /\ UNCHANGED <<customer, inventory, order>>
    ]_vars

\* C4 witness: an order for a product without a record was refused as NotConfigured.
C4_Witness ==
    /\ resp.op = "create_order" /\ resp.err = "NotConfigured"
    /\ \E p \in Products : ~Configured(inventory, p)
    /\ order = <<>>

\* C5: for every product/quantity combination with quantity_kg below the min_kg
\* of the inventory record the call loads (the customer id resolving, so that
\* the record is loaded), create_order fails with BelowMinimum, reporting the
\* minimum, persists no order and leaves available_kg unchanged.
C5_BelowMinimum ==
    [][\A cid \in CustomerIds, p \in Products, q \in Quantities, n \in Notes :
        (/\ Resolves(cid)
         /\ Configured(inventory, p)
         /\ q < InventoryOf(inventory, p).min_kg
         /\ create_order(cid, p, q, n)) =>
            /\ resp'.code = 400 /\ resp'.err = "BelowMinimum"
            /\ resp'.arg = InventoryOf(inventory, p).min_kg
            /\ order' = order
            /\ inventory' = inventory
    ]_vars

\* C5 witness: an order was refused as below the minimum of 3 kg.
C5_Witness ==
    /\ resp.op = "create_order" /\ resp.err = "BelowMinimum" /\ resp.arg = 3
    /\ \E p \in Products : Configured(inventory, p) /\ InventoryOf(inventory, p).min_kg = 3

\* C6 as stated: quantity_kg % step_kg # 0 always fails with InvalidIncrement,
\* also for quantities below min_kg (the customer id resolving).
C6_Original ==
    [][\A cid \in CustomerIds, p \in Products, q \in Quantities, n \in Notes :
        (/\ Resolves(cid)
         /\ Configured(inventory, p)
         /\ q % InventoryOf(inventory, p).step_kg # 0
         /\ create_order(cid, p, q, n)) =>
            /\ resp'.code = 400 /\ resp'.err = "InvalidIncrement"
            /\ order' = order
            /\ inventory' = inventory
    ]_vars

\* C6 amended: quantity_kg % step_kg # 0 with quantity_kg >= min_kg always fails
\* with InvalidIncrement, reporting the step; with quantity_kg < min_kg it fails
\* with BelowMinimum instead; either way no order is persisted and available_kg
\* is unchanged.
C6_InvalidIncrement ==
    [][\A cid \in CustomerIds, p \in Products, q \in Quantities, n \in Notes :
        (/\ Resolves(cid)
         /\ Configured(inventory, p)
         /\ q % InventoryOf(inventory, p).step_kg # 0
         /\ create_order(cid, p, q, n)) =>
            /\ resp'.code = 400
            /\ q >= InventoryOf(inventory, p).min_kg =>
                  /\ resp'.err = "InvalidIncrement"
                  /\ resp'.arg = InventoryOf(inventory, p).step_kg
            /\ q < InventoryOf(inventory, p).min_kg => resp'.err = "BelowMinimum"
            /\ order' = order
            /\ inventory' = inventory
    ]_vars

\* C6 witness: an order was refused for not being a multiple of the step of 2 kg.
C6_Witness ==
    /\ resp.op = "create_order" /\ resp.err = "InvalidIncrement" /\ resp.arg = 2
    /\ \E p \in Products : Configured(inventory, p) /\ InventoryOf(inventory, p).step_kg = 2

\* C7: an accepted create_order inserts exactly one order, with status
\* "received"; the ordered product's record has available_kg decreased by
\* exactly quantity_kg and updated_at stamped; customers, earlier orders, the
\* other inventory records and the record's own rule fields are unchanged.
C7_AcceptedOrderEffects ==
    [][\A cid \in CustomerIds, p \in Products, q \in Quantities, n \in Notes :
        Accepted(cid, p, q, n) =>
            LET k == FindIndex(inventory, "product", p)
            IN  /\ Len(order') = Len(order) + 1
                /\ SubSeq(order', 1, Len(order)) = order
                /\ order'[Len(order')].status = "received"
                /\ order'[Len(order')].product = p
                /\ order'[Len(order')].quantity_kg = q
                /\ customer' = customer
                /\ Len(inventory') = Len(inventory)
                /\ \A j \in 1..Len(inventory) : j # k => inventory'[j] = inventory[j]
                /\ inventory'[k].available_kg = inventory[k].available_kg - q * Den
                /\ inventory'[k].updated_at = now
                /\ DOMAIN inventory'[k] = DOMAIN inventory[k] \cup {"updated_at"}
                /\ \A f \in DOMAIN inventory[k] \ {"available_kg", "updated_at"} :
                      inventory'[k][f] = inventory[k][f]
    ]_vars

\* C7 witness: an accepted order took the stock below zero while the other
\* product's record was there.
C7_Witness ==
    /\ resp.op = "create_order"
    /\ Len(order) = 1 /\ Len(inventory) = 2
    /\ InventoryOf(inventory, order[1].product).available_kg < 0
    /\ InventoryOf(inventory, order[1].product).updated_at = order[1].created_at

\* ------------------------------------------------------------ claims on the catalogue
\* Number of inventory records of product p.
RecordsOf(inv, p) ==
    Cardinality({k \in 1..Len(inv) : "product" \in DOMAIN inv[k] /\ inv[k].product = p})

AtMostOnePerProduct(inv) == \A p \in Products : RecordsOf(inv, p) <= 1

\* The latest request served before this one was op.
JustServed(op) == log # <<>> /\ log[Len(log)] = op

\* C9: from any inventory with zero or one record per product, list_inventory
\* leaves exactly one record for each product, inserting the documented
\* defaults for the missing ones only, and a second call right after the first
\* inserts nothing and returns the same entries.
C9_ListInventoryIdempotent ==
    [][(AtMostOnePerProduct(inventory) /\ list_inventory) =>
        /\ \A p \in Products : RecordsOf(inventory', p) = 1
        /\ Len(inventory') = 2
        /\ SubSeq(inventory', 1, Len(inventory)) = inventory
        /\ \A k \in (Len(inventory) + 1)..Len(inventory') :
              /\ RecordsOf(inventory, inventory'[k].product) = 0
              /\ inventory'[k].step_kg = 1
              /\ inventory'[k].available_kg = 0
              /\ inventory'[k].batch_threshold_kg = 15
              /\ inventory'[k].product = "suxhuk" =>
                    inventory'[k].price_per_kg = 50000 /\ inventory'[k].min_kg = 1
              /\ inventory'[k].product = "mish_te_teren" =>
                    inventory'[k].price_per_kg = 65000 /\ inventory'[k].min_kg = 3
        /\ Len(resp'.body) = 2
        /\ \A k \in 1..2 :
              /\ resp'.body[k].id = StrId(inventory'[k]["_id"])
              /\ \A f \in {"product", "price_per_kg", "min_kg", "step_kg",
                           "available_kg", "batch_threshold_kg"} :
                    resp'.body[k][f] = inventory'[k][f]
        /\ JustServed("list_inventory") =>
              inventory' = inventory /\ resp'.body = resp.body
    ]_vars

\* C9 witness: two listings in a row; the first found only mish_te_teren and
\* seeded the suxhuk default after it.
C9_Witness ==
    /\ log = <<"list_inventory", "list_inventory">>
    /\ Len(inventory) = 2
    /\ inventory[1].product = "mish_te_teren" /\ inventory[1].step_kg = 2
    /\ inventory[2].product = "suxhuk" /\ inventory[2].price_per_kg = 50000
    /\ "updated_at" \notin DOMAIN inventory[2]
    /\ Len(resp.body) = 2

\* ------------------------------------------------------------ claims on customers
\* Number of customer records with this email.
WithEmail(cust, email) == Cardinality({k \in 1..Len(cust) : cust[k].email = email})

\* C10: the first upsert of an email inserts its one record, stamped now; an
\* upsert of an email that is there (the second of two in sequence) leaves
\* exactly one record with that email, holding the name just given and the
\* created_at it had; only updated_at and the supplied fields change.
C10_UpsertTwice ==
    [][\A data \in CustomerIn :
        upsert_customer(data) =>
            LET k == FindIndex(customer, "email", data.email)
            IN  /\ WithEmail(customer', data.email) = 1
                /\ k = 0 =>
                      /\ Len(customer') = Len(customer) + 1
                      /\ SubSeq(customer', 1, Len(customer)) = customer
                      /\ customer'[Len(customer')].name = data.name
                      /\ customer'[Len(customer')].created_at = now
                      /\ customer'[Len(customer')].updated_at = now
                /\ k # 0 =>
                      /\ Len(customer') = Len(customer)
                      /\ \A j \in 1..Len(customer) : j # k => customer'[j] = customer[j]
                      /\ DOMAIN customer'[k] = DOMAIN customer[k]
                      /\ customer'[k].name = data.name
                      /\ customer'[k].email = data.email
                      /\ customer'[k].phone = data.phone
                      /\ customer'[k].created_at = customer[k].created_at
                      /\ customer'[k]["_id"] = customer[k]["_id"]
                      /\ customer'[k].updated_at = now
                      /\ resp'.body[1].id = StrId(customer[k]["_id"])
                      /\ resp'.body[1].name = data.name
    ]_vars

\* C10 witness: two upserts of one email in a row, the store holding the one
\* record created by the first (at 1) and renamed by the second (at 2).
C10_Witness ==
    /\ log = <<"upsert_customer", "upsert_customer">>
    /\ Len(customer) = 1
    /\ customer[1].name = "Ben"
    /\ customer[1].created_at = 1
    /\ customer[1].updated_at = 2
    /\ resp.body[1].name = "Ben"

\* ------------------------------------------------------------ claims on interleaved requests
\* C1: once NumProcs concurrent valid orders of q kg each for one product have
\* all completed (each persisted its order), the product's available_kg is the
\* initial stock less NumProcs * q.
C1_ExactDebit ==
    \A p \in Products, q \in ConcQuantities :
        (\A pr \in Procs :
            /\ Done(pr) /\ "new_id" \in DOMAIN procs[pr]
            /\ procs[pr].p = p /\ procs[pr].q = q)
        => InventoryOf(inventory, p).available_kg = InitialStock(p) - NumProcs * q * Den

\* C8: under any interleaving of the inventory requests, the collection holds
\* at most one record per product.
C8_AtMostOnePerProduct == AtMostOnePerProduct(inventory)

\* ------------------------------------------------------------ claims on order status
\* The step served this endpoint.
Serves(op) == log' = Append(log, op)

\* Fields of an order that no request may change once it is stored.
FrozenOrderFields ==
    {"_id", "customer_id", "product", "quantity_kg", "total_price_nzd",
     "batch_index", "notes", "created_at"}

\* C11: no step of any endpoint removes an order or changes a field of a stored
\* order other than status and updated_at; update_order_status changes the
\* status and updated_at of the targeted order only and leaves every other
\* order as it was; every other endpoint leaves the stored orders as they were.
C11_OrderImmutable ==
    [][/\ Len(order') >= Len(order)
       /\ \A k \in 1..Len(order) :
             /\ DOMAIN order'[k] = DOMAIN order[k]
             /\ \A f \in FrozenOrderFields : order'[k][f] = order[k][f]
       /\ ~Serves("update_order_status") => SubSeq(order', 1, Len(order)) = order
       /\ Serves("update_order_status") =>
             \A oid \in OrderIds, s \in Statuses :
                update_order_status(oid, s) =>
                    /\ Len(order') = Len(order)
                    /\ \A k \in 1..Len(order) :
                          (~ObjectIdOk(oid) \/ order[k]["_id"] # ObjectId(oid))
                              => order'[k] = order[k]
    ]_vars

\* C11 witness: the status of the first order was updated at time 2 after
\* another request; its other fields are those of its creation at time 0 and
\* the second order is as created.
C11_Witness ==
    /\ Len(log) = 2 /\ log[2] = "update_order_status" /\ resp.code = 200
    /\ order[1].updated_at = 2 /\ order[1].created_at = 0
    /\ order[1].status = "ready_for_collection"
    /\ order[1].notes = "gift" /\ order[1].quantity_kg = 12
    /\ order[2] = PlacedOrders[2]

\* The step is one of process pr.
StepOf(pr) == procs'[pr] # procs[pr]

\* Process pr is serving a status update.
InStatusUpdate(pr) == procs[pr].pc \in {"us_stamp", "us_update", "us_find"}

\* C12: among requests served at once, an update_order_status with a malformed
\* id is answered 400 InvalidReference before any storage operation, and with
\* a well-formed id that matches no order at its update it is answered 404
\* NotFound; in both cases no step of the request changes the order,
\* inventory or customer collection.
C12_StatusUpdateUnknownId ==
    [][\A pr \in Procs :
          (InStatusUpdate(pr) /\ StepOf(pr)) =>
             /\ ~ObjectIdOk(procs[pr].oid) =>
                   /\ procs[pr].pc = "us_stamp" /\ procs'[pr].pc = "done"
                   /\ procs'[pr].resp.code = 400
                   /\ procs'[pr].resp.err = "InvalidReference"
                   /\ order' = order /\ inventory' = inventory /\ customer' = customer
             /\ (/\ procs[pr].pc = "us_update"
                 /\ \A k \in 1..Len(order) : order[k]["_id"] # ObjectId(procs[pr].oid)) =>
                   /\ procs'[pr].pc = "done"
                   /\ procs'[pr].resp.code = 404
                   /\ procs'[pr].resp.err = "NotFound"
                   /\ order' = order /\ inventory' = inventory /\ customer' = customer
             /\ procs[pr].pc # "us_update" =>
                   order' = order /\ inventory' = inventory /\ customer' = customer
    ]_vars

\* C12 witness: of two status updates, the one for an id that matches neither
\* order was answered 404 and the one for a malformed id 400, and the two
\* orders are stored.
C12_Witness ==
    /\ Len(order) = 2
    /\ \E pr, ps \in Procs :
          /\ Done(pr) /\ procs[pr].op = "update_order_status" /\ procs[pr].oid = StrId(3)
          /\ procs[pr].resp.code = 404 /\ procs[pr].resp.err = "NotFound"
          /\ Done(ps) /\ procs[ps].op = "update_order_status" /\ procs[ps].oid = BadId
          /\ procs[ps].resp.code = 400 /\ procs[ps].resp.err = "InvalidReference"

\* C13: among requests served at once, every order create_order inserts has
\* status "received"; the update of an update_order_status whose id matches an
\* order leaves that order with the requested status, whatever its status
\* was, and the request is then answered 200.
C13_AnyTransition ==
    [][\A pr \in Procs :
          /\ co_insert_order(pr) =>
                /\ Len(order') = Len(order) + 1
                /\ order'[Len(order')].status = "received"
          /\ (/\ us_update(pr)
              /\ \E k \in 1..Len(order) : order[k]["_id"] = ObjectId(procs[pr].oid)) =>
                /\ order'[FindIndex(order, "_id", ObjectId(procs[pr].oid))].status
                      = procs[pr].status
                /\ procs'[pr].pc = "us_find"
          /\ us_find(pr) =>
                /\ procs'[pr].pc = "done"
                /\ procs'[pr].resp.code = 200
    ]_vars

\* C13 witness: two status updates of the first order were both answered 200,
\* one with the order in "ready_for_collection" and one with it in "received",
\* and the order is stored in "received": the update to "received" came last
\* and found the order in "ready_for_collection".
C13_Witness ==
    /\ order[1].status = "received"
    /\ \E pr, ps \in Procs :
          /\ Done(pr) /\ procs[pr].op = "update_order_status" /\ procs[pr].oid = StrId(1)
          /\ procs[pr].status = "ready_for_collection" /\ procs[pr].resp.code = 200
          /\ procs[pr].resp.body[1].status = "ready_for_collection"
          /\ Done(ps) /\ procs[ps].op = "update_order_status" /\ procs[ps].oid = StrId(1)
          /\ procs[ps].status = "received" /\ procs[ps].resp.code = 200
          /\ procs[ps].resp.body[1].status = "received"

\* ------------------------------------------------------------ claims on the inventory endpoints
RuleFields == {"price_per_kg", "min_kg", "step_kg", "batch_threshold_kg"}

\* C14: from any inventory with at most one record per product, seed_defaults
\* leaves exactly one record per product whose price_per_kg, min_kg, step_kg
\* and batch_threshold_kg are the defaults (suxhuk 50.0/1/1/15, mish_te_teren
\* 65.0/3/1/15), and a second seed_defaults right after it leaves the
\* collection identical.
C14_SeedIdempotent ==
    [][(AtMostOnePerProduct(inventory) /\ seed_defaults) =>
        /\ Len(inventory') = 2
        /\ SubSeq([k \in 1..Len(inventory') |-> inventory'[k]["_id"]], 1, Len(inventory))
              = [k \in 1..Len(inventory) |-> inventory[k]["_id"]]
        /\ \A p \in Products :
              /\ RecordsOf(inventory', p) = 1
              /\ InventoryOf(inventory', p).step_kg = 1
              /\ InventoryOf(inventory', p).batch_threshold_kg = 15
        /\ InventoryOf(inventory', "suxhuk").price_per_kg = 50000
        /\ InventoryOf(inventory', "suxhuk").min_kg = 1
        /\ InventoryOf(inventory', "mish_te_teren").price_per_kg = 65000
        /\ InventoryOf(inventory', "mish_te_teren").min_kg = 3
        /\ JustServed("seed_defaults") => inventory' = inventory
    ]_vars

\* C14 witness: two seeds in a row; the first found only a mish_te_teren record
\* (with a step of 2 kg at the start), reset it and inserted suxhuk after it.
C14_Witness ==
    /\ log = <<"seed_defaults", "seed_defaults">>
    /\ Len(inventory) = 2
    /\ inventory[1].product = "mish_te_teren" /\ inventory[1].step_kg = 1
    /\ inventory[2].product = "suxhuk" /\ inventory[2].price_per_kg = 50000
    /\ resp.body = <<[status |-> "ok"]>>

\* C15: POST /inventory on a product that has a record replaces the record's
\* price_per_kg, min_kg, step_kg, available_kg and batch_threshold_kg by the
\* request's and stamps updated_at, the number of records unchanged; on a
\* product without a record it inserts exactly one record with the request's
\* values; the other product's record is unchanged in both cases.
C15_InventoryUpsert ==
    [][Serves("create_or_update_inventory") =>
        \A p \in Products : \A item \in InventoryItemIn(p) :
            create_or_update_inventory(item) =>
                LET k == FindIndex(inventory, "product", p)
                    j == IF k # 0 THEN k ELSE Len(inventory) + 1
                IN  /\ Len(inventory') = IF k # 0 THEN Len(inventory) ELSE Len(inventory) + 1
                    /\ \A f \in RuleFields \cup {"available_kg", "product"} :
                          inventory'[j][f] = item[f]
                    /\ inventory'[j].updated_at = now
                    /\ k # 0 => inventory'[j]["_id"] = inventory[k]["_id"]
                    /\ DOMAIN inventory'[j] =
                          RuleFields \cup {"available_kg", "product", "updated_at", "_id"}
                    /\ \A i \in 1..Len(inventory) : i # j => inventory'[i] = inventory[i]
    ]_vars

\* C15 witness: a POST inserted suxhuk at time 1 with 10 kg in stock and a POST
\* at time 2 replaced its rules and stock, beside the mish_te_teren record.
C15_Witness ==
    /\ log = <<"create_or_update_inventory", "create_or_update_inventory">>
    /\ Len(inventory) = 2
    /\ inventory[1].product = "mish_te_teren"
    /\ "updated_at" \notin DOMAIN inventory[1]
    /\ inventory[2].product = "suxhuk" /\ inventory[2].updated_at = 2
    /\ inventory[2].price_per_kg = 65000 /\ inventory[2].step_kg = 2
    /\ inventory[2].available_kg = 0

\* C16: update_inventory never adds a record; with a body whose product differs
\* from the path it answers 400 PathBodyMismatch, with no record for the
\* product 404 NotFound, and in both cases the inventory is unchanged.
C16_UpdateInventoryFailures ==
    [][Serves("update_inventory") =>
        \A path \in PathProducts, p \in Products : \A item \in InventoryItemIn(p) :
            update_inventory(path, item) =>
                /\ Len(inventory') = Len(inventory)
                /\ p # path =>
                      /\ resp'.code = 400 /\ resp'.err = "PathBodyMismatch"
                      /\ inventory' = inventory
                /\ (p = path /\ ~Configured(inventory, path)) =>
                      /\ resp'.code = 404 /\ resp'.err = "NotFound"
                      /\ inventory' = inventory
    ]_vars

\* C16 witness: two PUTs were refused while the collection had no record at
\* all, the second one because its path and body disagree.
C16_Witness ==
    /\ log = <<"update_inventory", "update_inventory">>
    /\ resp.code = 400 /\ resp.err = "PathBodyMismatch"
    /\ inventory = <<>>

\* ------------------------------------------------------------ claims on totals and precedence
\* C17: for every accepted order, the persisted total_price_nzd is
\* round(price_per_kg * quantity_kg, 2) as the program's floats give it, for
\* the price_per_kg of the inventory record the call read: a cent amount within
\* half a cent of the decimal product, and where the decimal product is half
\* way between two cents, the cent on the side of the double: 1.125 x 1 is
\* 1.12 and 1.125 x 3 is 3.38 (the doubles are exact, the even cent), 2.675 x 1
\* is 2.67 and 2.675 x 3 is 8.02 (the doubles are below the decimal products).
C17_TotalPrice ==
    [][\A cid \in CustomerIds, p \in Products, q \in Quantities, n \in Notes :
        Accepted(cid, p, q, n) =>
            LET mills == InventoryOf(inventory, p).price_per_kg * q
                cents == order'[Len(order')].total_price_nzd
                gap == IF 10 * cents >= mills THEN 10 * cents - mills ELSE mills - 10 * cents
            IN  /\ Len(order') = Len(order) + 1
                /\ gap <= 5
                /\ (mills = 1125) => cents = 112
                /\ (mills = 3375) => cents = 338
                /\ (mills = 2675) => cents = 267
                /\ (mills = 8025) => cents = 802
                /\ (mills = 133750) => cents = 13375
                /\ (mills = 600000) => cents = 60000
    ]_vars

\* C17 witness: orders of 1 kg and then 3 kg at 2.675 NZD per kg are stored
\* with totals of 2.67 and 8.02.
C17_Witness ==
    /\ Len(order) = 2
    /\ order[1].quantity_kg = 1 /\ order[1].total_price_nzd = 267
    /\ order[2].quantity_kg = 3 /\ order[2].total_price_nzd = 802
    /\ InventoryOf(inventory, order[2].product).price_per_kg = 2675

\* C18: create_order checks, in this order, that the customer id is well formed
\* (400 InvalidReference), that the customer exists (404 NotFound), that the
\* product is configured (400 NotConfigured), that the quantity reaches min_kg
\* (400 BelowMinimum) and that it is a multiple of step_kg (400
\* InvalidIncrement); a request that violates any of them fails with the error
\* of the first one violated and writes nothing.
C18_PreconditionOrder ==
    [][\A cid \in CustomerIds, p \in Products, q \in Quantities :
        ~Valid(cid, p, q) =>
            \A n \in Notes :
                create_order(cid, p, q, n) =>
                    LET malformed == cid[1] # "oid"
                        absent == \A k \in 1..Len(customer) : customer[k]["_id"] # cid[2]
                        rec == {k \in 1..Len(inventory) : inventory[k].product = p}
                        idx == CHOOSE k \in rec : \A j \in rec : k <= j
                        first ==
                            IF malformed THEN <<400, "InvalidReference">>
                            ELSE IF absent THEN <<404, "NotFound">>
                            ELSE IF rec = {} THEN <<400, "NotConfigured">>
                            ELSE IF q < inventory[idx].min_kg THEN <<400, "BelowMinimum">>
                            ELSE <<400, "InvalidIncrement">>
                    IN  /\ <<resp'.code, resp'.err>> = first
                        /\ order' = order /\ inventory' = inventory /\ customer' = customer
    ]_vars

\* C18 witness: a request with an unknown customer id was refused with 404
\* while suxhuk had no record and mish_te_teren is sold from 3 kg by steps of
\* 2 kg, so that most requests violate a later precondition too.
C18_Witness ==
    /\ resp.op = "create_order" /\ resp.code = 404 /\ resp.err = "NotFound"
    /\ Len(inventory) = 1 /\ inventory[1].product = "mish_te_teren"
    /\ inventory[1].step_kg = 2 /\ inventory[1].min_kg = 3
    /\ order = <<>>

\* ------------------------------------------------------------ claims on debits
\* Sum of quantity_kg over the persisted orders of product p, in kg.
RECURSIVE OrderedKg(_, _)
OrderedKg(ord, p) ==
    IF ord = <<>> THEN 0
    ELSE (IF Head(ord).product = p THEN Head(ord).quantity_kg ELSE 0) + OrderedKg(Tail(ord), p)

\* C19: with create_order requests interleaved at will and stopping at any
\* step, and nothing else writing the inventory, each product's available_kg
\* is at least its initial available_kg less the quantity_kg of all persisted
\* orders of that product.
C19_NeverOverDebited ==
    \A p \in Products :
        InventoryOf(inventory, p).available_kg >= InitialStock(p) - OrderedKg(order, p) * Den

\* C19 witness: one request stopped after its order was inserted and before the
\* stock was written, another one completed, and the stock is short of the
\* orders persisted by exactly the stopped request's quantity.
C19_Witness ==
    \E pr, other \in Procs :
        /\ procs[pr].pc = "crashed" /\ "new_id" \in DOMAIN procs[pr]
        /\ Done(other) /\ "new_id" \in DOMAIN procs[other]
        /\ procs[other].p = procs[pr].p
        /\ Len(order) = 2
        /\ InventoryOf(inventory, procs[pr].p).available_kg
              = InitialStock(procs[pr].p) - procs[other].q * Den

\* ------------------------------------------------------------ claims on customer emails
\* C20: after any sequence of POST /customers and PUT /customers/{id} requests,
\* served one at a time, no two customer records have the same email.
C20_EmailUnique == \A e \in Emails : WithEmail(customer, e) <= 1

====
